---- MODULE Spec2Model ----
(***************************************************************************)
(* Model of the win-audio-capture sidecar: the mic callback, the WASAPI    *)
(* loopback thread and the mixing loop of main(), with the two bounded     *)
(* sample channels, the WAV sink and the framed stdout stream.             *)
(*                                                                         *)
(* Amplitudes (f32 in the code) are kept in fixed point, in half units:    *)
(* the integer v stands for the amplitude v/2, so 1 is 0.5, 2 is 1.0 and   *)
(* 3 is 1.5.                                                               *)
(***************************************************************************)
EXTENDS Integers, Sequences, FiniteSets, TLC

\* ------------------------------------------------------------------ bounds
\* main.rs:186 sets SAMPLES_PER_FRAME to 4800 stereo pairs; the model keeps
\* the same flush rule on a shorter frame.
SAMPLES_PER_FRAME == 2
\* main.rs:88-89 create both channels with bounded(48000); the model keeps
\* the same drop-on-full rule on a shorter queue.
ChannelCapacity == 1
\* Packets with frames that the platform hands to the loopback thread.
MaxPackets == 2
\* I/O calls (sink writes, platform calls) that fail in one session.
MaxFail == 1

\* Iterations of the mixing loop that are explored: one full frame and the
\* start of the next.
MaxIter == SAMPLES_PER_FRAME + 1
\* try_send calls of the mic callback: enough to fill the channel and to have
\* one sample dropped.
MaxMicSends == ChannelCapacity + 1
\* Frames per loopback packet: enough to fill the channel and to have one
\* sample dropped.
MaxFrames == ChannelCapacity + 1

\* --------------------------------------------------------------- constants
\* i16::MAX (main.rs:209, wasapi_loopback.rs:201)
I16_MAX == 32767
\* sequence_number and frame_size are u32 (main.rs:185, main.rs:278). A u32
\* is kept as its two 16-bit halves, [hi, lo] standing for hi * 65536 + lo.
U16_MODULUS == 65536

\* Amplitudes the mic callback delivers (0.5 and -0.5).
MicSamples == {1, -1}
\* Raw samples of a non-silent loopback buffer, per format: 16-bit PCM full
\* scale, or the 32-bit float 1.0 (in half units).
RawLoopback(bits) == IF bits = 16 THEN {I16_MAX} ELSE {2}
\* wBitsPerSample values the platform mix format may carry.
BitDepths == {16, 32, 24}

\* ------------------------------------------------------------------ state
VARIABLES
    running,              \* Arc<AtomicBool> shared by the three contexts
    mic_ch,               \* bounded channel mic_tx -> mic_rx
    loopback_ch,          \* bounded channel loopback_tx -> loopback_rx
    micAlive,             \* input_stream is playing (not yet dropped)
    micSends,             \* try_send calls made by the mic callback
    lbPc,                 \* position of the loopback thread
    lbBits,               \* wave_format.wBitsPerSample
    lbPending,            \* mono samples of the current buffer still to send
    lbPackets,            \* packets with frames retrieved so far
    lbErr,                \* the Err the loopback thread returned ("" if none)
    lbSilent,             \* the current buffer carries AUDCLNT_BUFFERFLAGS_SILENT
    lbFrames,             \* num_frames_available of the current buffer
    lbEntered,            \* samples of the current buffer the channel took
    pc,                   \* position of main()
    iter,                 \* iterations of the mixing loop started
    last_mic_sample,
    last_loopback_sample,
    mic_got,              \* mic_rx.try_recv() returned a sample in the
                          \* iteration under way
    loopback_got,         \* loopback_rx.try_recv() returned a sample in it
    micDelivered,         \* the sample most recently received from mic_rx
    loopbackDelivered,    \* the sample most recently received from loopback_rx
    frame_buffer,         \* staging buffer Vec<i16>
    sequence_number,
    samples_written,
    wav,                  \* samples accepted by wav_writer, in order
    stream,               \* what write_pcm_frame put on the stdout stream
    calls,                \* one record per write_pcm_frame call
    finalizeCalls,        \* calls of wav_writer.finalize()
    slept,                \* the iteration just ended did thread::sleep
    fails,                \* failing I/O calls so far
    log                   \* the warnings and errors written to stderr

vars == <<running, mic_ch, loopback_ch, micAlive, micSends, lbPc, lbBits,
          lbPending, lbPackets, lbErr, lbSilent, lbFrames, lbEntered, pc,
          iter, last_mic_sample,
          last_loopback_sample, mic_got, loopback_got, micDelivered,
          loopbackDelivered, frame_buffer, sequence_number, samples_written,
          wav, stream, calls, finalizeCalls, slept, fails, log>>

sharedVars == <<running, mic_ch, loopback_ch>>
micVars == <<micAlive, micSends>>
\* What the loopback thread keeps about the buffer it is sending.
lbBufVars == <<lbSilent, lbFrames, lbEntered>>
lbVars == <<lbPc, lbBits, lbPending, lbPackets, lbErr, lbBufVars>>
\* What only main() reads and writes.
recvVars == <<last_mic_sample, last_loopback_sample, mic_got, loopback_got,
              micDelivered, loopbackDelivered>>
sinkVars == <<frame_buffer, sequence_number, samples_written, wav, stream,
              calls, finalizeCalls>>

\* ---------------------------------------------------------------- helpers
\* try_send with the capacity test off by one: a full channel takes one more.
TrySendOffByOne(ch, v) ==
    IF Len(ch) <= ChannelCapacity THEN Append(ch, v) ELSE ch

\* Sender::try_send on a bounded channel, its result ignored (let _ = ...):
\* the sample is queued if there is room and dropped otherwise.
TrySend(ch, v) == IF Len(ch) < ChannelCapacity THEN Append(ch, v) ELSE ch

\* Receiver::try_recv: the oldest queued sample, or nothing.
TryRecv(ch) ==
    IF ch = <<>> THEN [some |-> FALSE, v |-> 0, rest |-> ch]
    ELSE [some |-> TRUE, v |-> Head(ch), rest |-> Tail(ch)]

\* unwrap_or(0.0): silence is used when nothing is received.
UnwrapOrSilence(r, fallback) == IF r.some THEN r.v ELSE 0

\* Result::unwrap_or: the received sample, or the fallback.
UnwrapOr(r, fallback) == IF r.some THEN r.v ELSE fallback

\* The conversion without its clamp.
ClampNone(v) == v

\* f32::clamp(-1.0, 1.0), in half units.
Clamp(v) == IF v < -2 THEN -2 ELSE IF v > 2 THEN 2 ELSE v

\* (x.clamp(-1.0, 1.0) * i16::MAX as f32) as i16: the product is exact in
\* f32 for these amplitudes and the cast truncates toward zero.
ToI16(v) ==
    LET p == Clamp(v) * I16_MAX
    IN  IF p >= 0 THEN p \div 2 ELSE -((-p) \div 2)

\* The u32 of a number below 2^31 (usize as u32 on the lengths met here).
U32Of(n) == [hi |-> (n \div U16_MODULUS) % U16_MODULUS, lo |-> n % U16_MODULUS]

\* u32::wrapping_add(1)
WrappingAdd1(u) ==
    IF u.lo + 1 < U16_MODULUS THEN [hi |-> u.hi, lo |-> u.lo + 1]
    ELSE [hi |-> (u.hi + 1) % U16_MODULUS, lo |-> 0]

\* One mono sample of a one-channel frame of the loopback buffer: a 16-bit
\* sample is divided by i16::MAX, a float passes through; the mean over one
\* channel is the value itself.
MonoSample(raw, bits) == IF bits = 16 THEN (raw * 2) \div I16_MAX ELSE raw

\* A sample as the sinks hold it: the i16 value, with the iteration and the
\* side (L = mic, R = loopback) it was computed in.
Smp(v, i, side) == [v |-> v, it |-> i, ch |-> side]

\* Tokens of the framed stream.
\* k: what was written; u: the u32 of a sequence number or a size; n, it, ch:
\* the sample of a pcm token.
TokMagic == [k |-> "magic", u |-> U32Of(0), n |-> 0, it |-> 0, ch |-> "-"]
TokSeq(u) == [k |-> "seq", u |-> u, n |-> 0, it |-> 0, ch |-> "-"]
TokSize(u) == [k |-> "size", u |-> u, n |-> 0, it |-> 0, ch |-> "-"]
TokPcm(s) == [k |-> "pcm", u |-> U32Of(0), n |-> s.v, it |-> s.it, ch |-> s.ch]

Prefix(s, n) == SubSeq(s, 1, n)

\* write_pcm_frame declaring the number of samples as the size in bytes.
FrameTokensSampleCount(samples, seqno) ==
    <<TokMagic, TokSeq(seqno), TokSize(U32Of(Len(samples)))>>
    \o [i \in 1..Len(samples) |-> TokPcm(samples[i])]

\* The writes of write_pcm_frame, in order: magic, sequence number, size,
\* then every sample.
FrameTokens(samples, seqno) ==
    <<TokMagic, TokSeq(seqno), TokSize(U32Of(Len(samples) * 2))>>
    \o [i \in 1..Len(samples) |-> TokPcm(samples[i])]

\* write_pcm_frame(writer, samples, sequence_number). failAt = 0: every
\* write_all and the flush succeed. failAt = k > 0: the k-th call fails
\* (calls 1..3 write the header, 4..3+n the samples, 4+n is the flush) and
\* the error is returned at once by the ? operator, so the later calls are
\* not made. A failing write_all is taken to have written none of its bytes:
\* the stream then ends the frame one field earlier, which is a partial
\* frame all the same. written: the fields that reached the stream.
WritePcmFrame(out, samples, seqno, failAt) ==
    LET toks == FrameTokens(samples, seqno)
        done == IF failAt = 0 THEN toks ELSE Prefix(toks, failAt - 1)
    IN  [ok |-> failAt = 0, out |-> out \o done, written |-> Len(done)]

\* The failure points of a write_pcm_frame call on n samples.
FailPoints(n) == 0..(n + 4)

\* The bytes write_pcm_frame hands to write_all.
\* b"SELL"
MagicBytes == <<83, 69, 76, 76>>
\* A 16-bit word, low byte first.
U16ToLeBytes(n) == <<n % 256, n \div 256>>
\* A 16-bit word, high byte first.
U16ToBeBytes(n) == <<n \div 256, n % 256>>
\* u32::to_le_bytes: the low half first.
U32ToLeBytes(u) == U16ToLeBytes(u.lo) \o U16ToLeBytes(u.hi)
\* The two's-complement bytes of an i16, high byte first.
I16ToBeBytes(n) == U16ToBeBytes((n + U16_MODULUS) % U16_MODULUS)

\* i16::to_le_bytes: the two's-complement word of the sample, low byte first.
I16ToLeBytes(n) == U16ToLeBytes((n + U16_MODULUS) % U16_MODULUS)
\* The bytes of one field of a frame.
TokenBytes(t) ==
    CASE t.k = "magic" -> MagicBytes
      [] t.k = "pcm" -> I16ToLeBytes(t.n)
      [] OTHER -> U32ToLeBytes(t.u)
\* The bytes of a sequence of fields, in the order written.
RECURSIVE StreamBytes(_)
StreamBytes(toks) ==
    IF toks = <<>> THEN <<>>
    ELSE TokenBytes(Head(toks)) \o StreamBytes(Tail(toks))

\* The lines written to stderr when something fails: the two warnings of
\* the in-loop flush (main.rs:229-230), the warning of the final flush
\* (main.rs:245), the warning for a loopback thread that panicked
\* (main.rs:255), and the "Error: ..." line the runtime prints when main
\* returns Err.
LogPcmFrame == "Warning: Failed to write PCM frame"
LogFinalFrame == "Warning: Failed to flush final PCM frame"
LogPanicked == "Warning: Loopback thread panicked"
LogMainError == "Error"

\* ------------------------------------------------------------------- Init
\* The session as main() enters its mixing loop: the loopback thread has been
\* spawned and the mic stream started.
Init ==
    /\ running = TRUE
    /\ mic_ch = <<>>
    /\ loopback_ch = <<>>
    /\ micAlive = TRUE
    /\ micSends = 0
    /\ lbPc = "acquire"
    /\ lbBits = 0
    /\ lbPending = <<>>
    /\ lbPackets = 0
    /\ lbErr = ""
    /\ lbSilent = FALSE
    /\ lbFrames = 0
    /\ lbEntered = 0
    /\ pc = "loop"
    /\ iter = 0
    /\ last_mic_sample = 0
    /\ last_loopback_sample = 0
    /\ mic_got = FALSE
    /\ loopback_got = FALSE
    /\ micDelivered = 0
    /\ loopbackDelivered = 0
    /\ frame_buffer = <<>>
    /\ sequence_number = U32Of(0)
    /\ samples_written = 0
    /\ wav = <<>>
    /\ stream = <<>>
    /\ calls = <<>>
    /\ finalizeCalls = 0
    /\ slept = FALSE
    /\ fails = 0
    /\ log = {}

\* ------------------------------------------------------- shutdown request
\* The ctrlc handler: r.store(false).
CtrlC ==
    /\ running
    /\ running' = FALSE
    /\ UNCHANGED <<mic_ch, loopback_ch, micVars, lbVars, pc, iter, recvVars,
                   sinkVars, slept, fails, log>>

\* ------------------------------------------------------------ mic callback
\* One chunk of the callback's data: its mono sample is try_sent.
MicCallback ==
    /\ micAlive
    /\ micSends < MaxMicSends
    /\ \E v \in MicSamples : mic_ch' = TrySend(mic_ch, v)
    /\ micSends' = micSends + 1
    /\ UNCHANGED <<running, loopback_ch, micAlive, lbVars, pc, iter,
                   recvVars, sinkVars, slept, fails, log>>

\* --------------------------------------------------------- loopback thread
\* The thread function returns Err(kind).
LbExitErr(kind) ==
    /\ lbPc' = "exit_err"
    /\ lbErr' = kind
    /\ lbPending' = <<>>
    /\ lbSilent' = FALSE
    /\ lbFrames' = 0
    /\ lbEntered' = 0

\* A platform call that fails.
LbCallFails(kind) ==
    /\ fails < MaxFail
    /\ fails' = fails + 1
    /\ LbExitErr(kind)

\* run_capture_loop up to audio_client.Start(). The calls that acquire the
\* endpoint (CoInitializeEx, the device enumerator, the default render
\* endpoint, its activation) and those that set up the loopback session (the
\* mix format, Initialize in loopback mode, the buffer size, the capture
\* client, Start) may each fail and end the thread with the error.
LbAcquire ==
    /\ lbPc = "acquire"
    /\ \/ /\ \E bits \in BitDepths : lbBits' = bits
          /\ lbPc' = "loop_head"
          /\ UNCHANGED <<lbPending, lbErr, lbBufVars, fails>>
       \/ /\ \E kind \in {"endpoint", "session"} :
                LbCallFails(kind)
          /\ UNCHANGED lbBits
    /\ UNCHANGED <<sharedVars, micVars, lbPackets, pc, iter, recvVars,
                   sinkVars, slept, log>>

\* while self.running.load(): Sleep and drain, else leave the capture loop.
LbLoopHead ==
    /\ lbPc = "loop_head"
    /\ lbPc' = IF running THEN "drain" ELSE "stop"
    /\ UNCHANGED <<sharedVars, micVars, lbBits, lbPending, lbPackets, lbErr,
                   lbBufVars, pc, iter, recvVars, sinkVars, slept, fails,
                   log>>

\* process_buffer's match on bits_per_sample: 16 and 32 are converted, any
\* other depth is the error "Unsupported bit depth".
ProcessBufferOk(bits) == bits \in {16, 32}

\* The silence flag ignored: the frames of the buffer are sent as full-scale
\* samples.
SilenceSamplesUnflagged(n) == [i \in 1..n |-> 2]

\* One zero for the whole buffer instead of one per frame.
SilenceSamplesOnePerBuffer(n) == <<0>>

\* The samples the silence branch sends for a buffer of n frames.
SilenceSamples(n) == [i \in 1..n |-> 0]

\* The samples process_buffer sends for n frames of the raw value raw.
ProcessBufferSamples(n, raw, bits) == [i \in 1..n |-> MonoSample(raw, bits)]

\* One turn of the inner loop: GetNextPacketSize, GetBuffer, and what the
\* buffer holds.
LbDrain ==
    /\ lbPc = "drain"
    /\ \/ \* packet_length == 0: break
          /\ lbPc' = "loop_head"
          /\ UNCHANGED <<lbPending, lbPackets, lbErr, lbBufVars, fails>>
       \/ \* GetNextPacketSize or GetBuffer fails
          /\ LbCallFails("buffer")
          /\ UNCHANGED lbPackets
       \/ \* data.is_null() || num_frames_available == 0: ReleaseBuffer, continue
          /\ UNCHANGED lbPackets
          /\ \/ UNCHANGED <<lbPc, lbPending, lbErr, lbBufVars, fails>>
             \/ LbCallFails("buffer")
       \/ \* AUDCLNT_BUFFERFLAGS_SILENT: one zero per frame
          /\ lbPackets < MaxPackets
          /\ lbPackets' = lbPackets + 1
          /\ \E n \in 1..MaxFrames :
                /\ lbPending' = SilenceSamples(n)
                /\ lbFrames' = n
          /\ lbSilent' = TRUE
          /\ lbEntered' = 0
          /\ lbPc' = "sending"
          /\ UNCHANGED <<lbErr, fails>>
       \/ \* a buffer of PCM data: process_buffer
          /\ lbPackets < MaxPackets
          /\ lbPackets' = lbPackets + 1
          /\ IF ProcessBufferOk(lbBits)
             THEN /\ \E n \in 1..MaxFrames : \E raw \in RawLoopback(lbBits) :
                        /\ lbPending' = ProcessBufferSamples(n, raw, lbBits)
                        /\ lbFrames' = n
                  /\ lbSilent' = FALSE
                  /\ lbEntered' = 0
                  /\ lbPc' = "sending"
                  /\ UNCHANGED <<lbErr, fails>>
             ELSE /\ LbExitErr("bit_depth")
                  /\ UNCHANGED fails
    /\ UNCHANGED <<sharedVars, micVars, lbBits, pc, iter, recvVars, sinkVars,
                   slept, log>>

\* One try_send of the loop over the buffer's frames; after the last one the
\* buffer is released (ReleaseBuffer may fail).
LbSend ==
    /\ lbPc = "sending"
    /\ loopback_ch' = TrySend(loopback_ch, Head(lbPending))
    /\ IF Tail(lbPending) # <<>>
       THEN /\ lbPending' = Tail(lbPending)
            /\ lbEntered' = lbEntered + (Len(loopback_ch') - Len(loopback_ch))
            /\ UNCHANGED <<lbPc, lbErr, lbSilent, lbFrames, fails>>
       ELSE \/ /\ lbPending' = <<>>
               /\ lbPc' = "drain"
               /\ lbSilent' = FALSE
               /\ lbFrames' = 0
               /\ lbEntered' = 0
               /\ UNCHANGED <<lbErr, fails>>
            \/ LbCallFails("buffer")
    /\ UNCHANGED <<running, mic_ch, micVars, lbBits, lbPackets, pc, iter,
                   recvVars, sinkVars, slept, log>>

\* audio_client.Stop() and the return of capture_audio.
LbStop ==
    /\ lbPc = "stop"
    /\ \/ /\ lbPc' = "exit_ok"
          /\ UNCHANGED <<lbPending, lbErr, lbBufVars, fails>>
       \/ LbCallFails("stop")
    /\ UNCHANGED <<sharedVars, micVars, lbBits, lbPackets, pc, iter,
                   recvVars, sinkVars, slept, log>>

\* The thread function has returned.
LbExited == lbPc \in {"exit_ok", "exit_err"}

\* ------------------------------------------------------------ mixing loop
\* while running.load(Ordering::SeqCst)
LoopHead ==
    /\ pc = "loop"
    /\ IF running
       THEN /\ iter < MaxIter
            /\ iter' = iter + 1
            /\ pc' = "recv_mic"
       ELSE /\ pc' = "final_flush"
            /\ UNCHANGED iter
    /\ slept' = FALSE
    /\ mic_got' = FALSE
    /\ loopback_got' = FALSE
    /\ UNCHANGED <<sharedVars, micVars, lbVars, last_mic_sample,
                   last_loopback_sample, micDelivered, loopbackDelivered,
                   sinkVars, fails, log>>

\* mic_sample = mic_rx.try_recv().unwrap_or(last_mic_sample), kept as
\* last_mic_sample.
RecvMic ==
    /\ pc = "recv_mic"
    /\ LET r == TryRecv(mic_ch)
       IN  /\ mic_ch' = r.rest
           /\ last_mic_sample' = UnwrapOr(r, last_mic_sample)
           /\ mic_got' = r.some
           /\ micDelivered' = IF r.some THEN r.v ELSE micDelivered
    /\ pc' = "recv_loopback"
    /\ UNCHANGED <<running, loopback_ch, micVars, lbVars, iter,
                   last_loopback_sample, loopback_got, loopbackDelivered,
                   sinkVars, slept, fails, log>>

\* loopback_sample = loopback_rx.try_recv().unwrap_or(last_loopback_sample),
\* kept as last_loopback_sample.
RecvLoopback ==
    /\ pc = "recv_loopback"
    /\ LET r == TryRecv(loopback_ch)
       IN  /\ loopback_ch' = r.rest
           /\ last_loopback_sample' = UnwrapOr(r, last_loopback_sample)
           /\ loopback_got' = r.some
           /\ loopbackDelivered' = IF r.some THEN r.v ELSE loopbackDelivered
    /\ pc' = "emit"
    /\ UNCHANGED <<running, mic_ch, micVars, lbVars, iter, last_mic_sample,
                   mic_got, micDelivered, sinkVars, slept, fails, log>>

\* The record kept of one write_pcm_frame call: its arguments, its result w,
\* the place of the call ("loop" or "final") and where its first field went
\* on the stream.
Call(seqno, samples, w, place, pos) ==
    [seq |-> seqno, batch |-> samples, ok |-> w.ok, written |-> w.written,
     at |-> place, pos |-> pos]

\* Ok(_) => sequence_number.wrapping_add(1)
SeqAfterOk(u) == WrappingAdd1(u)
\* Err(e) => the sequence number is left as it is
SeqAfterErr(u) == u
\* The Ok arm without its frame_buffer.clear().
BufferAfterOkKept(buf) == buf

\* frame_buffer.clear() of the Ok arm
BufferAfterOk(buf) == <<>>
\* The Err arm without its frame_buffer.clear().
BufferAfterErrKept(buf) == buf

\* frame_buffer.clear() of the Err arm
BufferAfterErr(buf) == <<>>
\* The flush test counting samples where the code counts pairs.
FlushDueOnSamples(buf) == Len(buf) >= SAMPLES_PER_FRAME

\* frame_buffer.len() >= SAMPLES_PER_FRAME * 2
FlushDue(buf) == Len(buf) >= SAMPLES_PER_FRAME * 2

\* The WAV writes with the right channel left out.
WavAfterWritesLeftOnly(w, l, r, wavFail) ==
    IF wavFail = "left" THEN w ELSE Append(w, l)

\* The two wav_writer.write_sample(..)? calls: the WAV samples after them when
\* none fails ("none"), when the first fails ("left") and when the first is
\* written and the second fails ("right").
WavAfterWrites(w, l, r, wavFail) ==
    CASE wavFail = "left" -> w
      [] wavFail = "right" -> Append(w, l)
      [] OTHER -> w \o <<l, r>>

\* The conversion of the held samples, the two WAV writes, the push to
\* frame_buffer and the flush of a full frame_buffer. A failing write_sample
\* makes main return the error: its locals are dropped (the input stream with
\* them) and the process ends, the loopback thread with it.
Emit ==
    /\ pc = "emit"
    /\ LET l == Smp(ToI16(last_mic_sample), iter, "L")
           r == Smp(ToI16(last_loopback_sample), iter, "R")
           buf == frame_buffer \o <<l, r>>
       IN
       \/ \E wavFail \in {"left", "right"} :
            /\ fails < MaxFail
            /\ fails' = fails + 1
            /\ wav' = WavAfterWrites(wav, l, r, wavFail)
            /\ pc' = "err_wav_write"
            /\ micAlive' = FALSE
            /\ lbPc' = IF LbExited THEN lbPc ELSE "killed"
            /\ log' = log \cup {LogMainError}
            /\ UNCHANGED <<frame_buffer, sequence_number, samples_written,
                           stream, calls>>
       \/ /\ wav' = WavAfterWrites(wav, l, r, "none")
          /\ samples_written' = samples_written + 2
          /\ pc' = "sleep_check"
          /\ UNCHANGED <<micAlive, lbPc>>
          /\ IF FlushDue(buf)
             THEN \E failAt \in FailPoints(Len(buf)) :
                    /\ failAt > 0 => fails < MaxFail
                    /\ LET w == WritePcmFrame(stream, buf, sequence_number,
                                              failAt)
                       IN  /\ stream' = w.out
                           /\ calls' = Append(calls,
                                  Call(sequence_number, buf, w, "loop",
                                       Len(stream) + 1))
                           /\ sequence_number' =
                                  IF w.ok THEN SeqAfterOk(sequence_number)
                                  ELSE SeqAfterErr(sequence_number)
                           /\ frame_buffer' =
                                  IF w.ok THEN BufferAfterOk(buf)
                                  ELSE BufferAfterErr(buf)
                           /\ fails' = IF w.ok THEN fails ELSE fails + 1
                           /\ log' = IF w.ok THEN log
                                     ELSE log \cup {LogPcmFrame}
             ELSE /\ frame_buffer' = buf
                  /\ UNCHANGED <<stream, calls, sequence_number, fails, log>>
    /\ UNCHANGED <<sharedVars, micSends, lbBits, lbPending, lbPackets, lbErr,
                   lbBufVars, iter, recvVars, finalizeCalls, slept>>

\* The throttle deciding on what the two reads of the iteration returned.
SleepCheckOnReads ==
    /\ pc = "sleep_check"
    /\ slept' = (~mic_got /\ ~loopback_got)
    /\ pc' = "loop"
    /\ UNCHANGED <<sharedVars, micVars, lbVars, iter, recvVars, sinkVars,
                   fails, log>>

\* if mic_rx.is_empty() && loopback_rx.is_empty() { thread::sleep(..) }
SleepCheck ==
    /\ pc = "sleep_check"
    /\ slept' = (mic_ch = <<>> /\ loopback_ch = <<>>)
    /\ pc' = "loop"
    /\ UNCHANGED <<sharedVars, micVars, lbVars, iter, recvVars, sinkVars,
                   fails, log>>

\* --------------------------------------------------------------- shutdown
\* if !frame_buffer.is_empty() { write_pcm_frame(..) }: an error is logged.
FinalFlush ==
    /\ pc = "final_flush"
    /\ IF frame_buffer # <<>>
       THEN \E failAt \in FailPoints(Len(frame_buffer)) :
              /\ failAt > 0 => fails < MaxFail
              /\ LET w == WritePcmFrame(stream, frame_buffer,
                                        sequence_number, failAt)
                 IN  /\ stream' = w.out
                     /\ calls' = Append(calls,
                            Call(sequence_number, frame_buffer, w, "final",
                                 Len(stream) + 1))
                     /\ fails' = IF w.ok THEN fails ELSE fails + 1
                     /\ log' = IF w.ok THEN log
                               ELSE log \cup {LogFinalFrame}
       ELSE UNCHANGED <<stream, calls, fails, log>>
    /\ pc' = "drop_input"
    /\ UNCHANGED <<sharedVars, micVars, lbVars, iter, recvVars, frame_buffer,
                   sequence_number, samples_written, wav, finalizeCalls,
                   slept>>

\* drop(input_stream): the mic callback is not called any more.
DropInputStream ==
    /\ pc = "drop_input"
    /\ micAlive' = FALSE
    /\ pc' = "join"
    /\ UNCHANGED <<sharedVars, micSends, lbVars, iter, recvVars, sinkVars,
                   slept, fails, log>>

\* The join left out: main goes on while the loopback thread runs.
JoinSkipped == TRUE

\* handle.join() returns once the loopback thread has returned.
JoinReturns == LbExited

\* What main logs about the value handle.join() returned: join() is Err
\* only when the thread panicked, and that is the only case with a warning;
\* a thread function that returned (Ok(()) or Err(e)) makes join() Ok(_), for
\* which nothing is written.
JoinLog(threadPc) == IF threadPc = "panicked" THEN {LogPanicked} ELSE {}

\* if let Some(handle) = loopback_handle { handle.join() }: start() always
\* returns Ok(handle), so the handle is there.
JoinLoopback ==
    /\ pc = "join"
    /\ JoinReturns
    /\ pc' = "finalize"
    /\ log' = log \cup JoinLog(lbPc)
    /\ UNCHANGED <<sharedVars, micVars, lbVars, iter, recvVars, sinkVars,
                   slept, fails>>

\* wav_writer.finalize().context(..)?
Finalize ==
    /\ pc = "finalize"
    /\ finalizeCalls' = finalizeCalls + 1
    /\ \/ /\ pc' = "done"
          /\ UNCHANGED <<fails, log>>
       \/ /\ fails < MaxFail
          /\ fails' = fails + 1
          /\ pc' = "err_finalize"
          /\ log' = log \cup {LogMainError}
    /\ UNCHANGED <<sharedVars, micVars, lbVars, iter, recvVars, frame_buffer,
                   sequence_number, samples_written, wav, stream, calls,
                   slept>>

\* ---------------------------------------------------------- specification
Next ==
    \/ CtrlC
    \/ MicCallback
    \/ LbAcquire
    \/ LbLoopHead
    \/ LbDrain
    \/ LbSend
    \/ LbStop
    \/ LoopHead
    \/ RecvMic
    \/ RecvLoopback
    \/ Emit
    \/ SleepCheck
    \/ FinalFlush
    \/ DropInputStream
    \/ JoinLoopback
    \/ Finalize

Spec == Init /\ [][Next]_vars

\* The steps of main() and those of the loopback thread. Each runs on a
\* thread of its own that the operating system keeps scheduling, so a step
\* that stays possible is taken in the end.
MainStep ==
    \/ LoopHead
    \/ RecvMic
    \/ RecvLoopback
    \/ Emit
    \/ SleepCheck
    \/ FinalFlush
    \/ DropInputStream
    \/ JoinLoopback
    \/ Finalize
LoopbackStep ==
    \/ LbAcquire
    \/ LbLoopHead
    \/ LbDrain
    \/ LbSend
    \/ LbStop

FairSpec == Init /\ [][Next]_vars /\ WF_vars(MainStep) /\ WF_vars(LoopbackStep)

\* ----------------------------------------- write_pcm_frame on given batches
\* The (left, right) pair p as the two samples of iteration i.
PairSamples(p, i) == <<Smp(p[1], i, "L"), Smp(p[2], i, "R")>>
\* Pairs of i16 values, with both ends of the i16 range and values whose two
\* bytes differ.
FramePairs == {<<100, -100>>, <<200, -200>>, <<-1, 256>>,
               <<I16_MAX, -I16_MAX - 1>>}
\* Batches of one pair and of two pairs.
FrameBatches ==
    {PairSamples(p, 1) : p \in FramePairs}
    \cup {PairSamples(p, 1) \o PairSamples(q, 2) : p, q \in FramePairs}
\* Sequence numbers: 0, 1, 0x01020304 and u32::MAX.
FrameSeqs == {U32Of(0), U32Of(1), [hi |-> 258, lo |-> 772],
              [hi |-> U16_MODULUS - 1, lo |-> U16_MODULUS - 1]}

\* A batch and a sequence number about to be handed to write_pcm_frame, the
\* batch having been written to the WAV sink.
FrameInit ==
    /\ running = TRUE
    /\ mic_ch = <<>>
    /\ loopback_ch = <<>>
    /\ micAlive = TRUE
    /\ micSends = 0
    /\ lbPc = "acquire"
    /\ lbBits = 0
    /\ lbPending = <<>>
    /\ lbPackets = 0
    /\ lbErr = ""
    /\ lbSilent = FALSE
    /\ lbFrames = 0
    /\ lbEntered = 0
    /\ pc = "write_pcm_frame"
    /\ frame_buffer \in FrameBatches
    /\ sequence_number \in FrameSeqs
    /\ iter = Len(frame_buffer) \div 2
    /\ last_mic_sample = 0
    /\ last_loopback_sample = 0
    /\ mic_got = FALSE
    /\ loopback_got = FALSE
    /\ micDelivered = 0
    /\ loopbackDelivered = 0
    /\ samples_written = Len(frame_buffer)
    /\ wav = frame_buffer
    /\ stream = <<>>
    /\ calls = <<>>
    /\ finalizeCalls = 0
    /\ slept = FALSE
    /\ fails = 0
    /\ log = {}

\* write_pcm_frame(&mut stdout_lock, &frame_buffer, sequence_number), up to
\* its return.
FrameCall ==
    /\ pc = "write_pcm_frame"
    /\ \E failAt \in FailPoints(Len(frame_buffer)) :
         /\ failAt > 0 => fails < MaxFail
         /\ LET w == WritePcmFrame(stream, frame_buffer, sequence_number,
                                   failAt)
            IN  /\ stream' = w.out
                /\ calls' = Append(calls,
                       Call(sequence_number, frame_buffer, w, "call",
                            Len(stream) + 1))
                /\ fails' = IF w.ok THEN fails ELSE fails + 1
    /\ pc' = "returned"
    /\ UNCHANGED <<sharedVars, micVars, lbVars, iter, recvVars, frame_buffer,
                   sequence_number, samples_written, wav, finalizeCalls,
                   slept, log>>

FrameSpec == FrameInit /\ [][FrameCall]_vars

\* ------------------------------------------- the mixing loop on amplitudes
\* Amplitudes from -2.0 to 2.0 (half units).
Amplitudes == -4..4

\* The mixing loop is entered with one sample in each channel: the mic
\* callback has sent one, and the loopback thread has sent the one frame of
\* a first buffer of 32-bit float data.
ConvInit ==
    /\ running = TRUE
    /\ \E a \in Amplitudes : mic_ch = <<a>>
    /\ \E b \in Amplitudes : loopback_ch = <<b>>
    /\ micAlive = TRUE
    /\ micSends = 1
    /\ lbPc = "drain"
    /\ lbBits = 32
    /\ lbPending = <<>>
    /\ lbPackets = 1
    /\ lbErr = ""
    /\ lbSilent = FALSE
    /\ lbFrames = 0
    /\ lbEntered = 0
    /\ pc = "loop"
    /\ iter = 0
    /\ last_mic_sample = 0
    /\ last_loopback_sample = 0
    /\ mic_got = FALSE
    /\ loopback_got = FALSE
    /\ micDelivered = 0
    /\ loopbackDelivered = 0
    /\ frame_buffer = <<>>
    /\ sequence_number = U32Of(0)
    /\ samples_written = 0
    /\ wav = <<>>
    /\ stream = <<>>
    /\ calls = <<>>
    /\ finalizeCalls = 0
    /\ slept = FALSE
    /\ fails = 0
    /\ log = {}

\* The steps of the mixing loop and its flushes, the producers sending
\* nothing more.
ConvNext ==
    \/ CtrlC
    \/ LoopHead
    \/ RecvMic
    \/ RecvLoopback
    \/ Emit
    \/ SleepCheck
    \/ FinalFlush

ConvSpec == ConvInit /\ [][ConvNext]_vars

\* ------------------------------------------------- reading the sinks back
Min(S) == CHOOSE m \in S : \A e \in S : m <= e

\* The number a u32 stands for (for the small values met here).
U32Value(u) == u.hi * U16_MODULUS + u.lo

\* A 12-byte header starts at position i of the stream.
HeaderAt(i) ==
    /\ i >= 1
    /\ i + 2 <= Len(stream)
    /\ stream[i].k = "magic"
    /\ stream[i + 1].k = "seq"
    /\ stream[i + 2].k = "size"

\* The number of payload samples on the stream from position i up to the
\* next header field or the end of the stream.
PcmRun(i) ==
    Min({j \in i..(Len(stream) + 1) :
            IF j > Len(stream) THEN TRUE ELSE stream[j].k # "pcm"}) - i

\* The positions where a whole frame starts: a header followed by as many
\* payload bytes as it declares.
FrameStarts ==
    {i \in 1..Len(stream) :
        HeaderAt(i) /\ PcmRun(i + 3) * 2 = U32Value(stream[i + 2].u)}

\* The write_pcm_frame calls whose header reached the stream.
HeaderCalls == {c \in 1..Len(calls) : calls[c].written >= 3}

\* A sequence of samples is made of (left, right) pairs, each from one
\* iteration.
WholePairs(q) ==
    /\ Len(q) % 2 = 0
    /\ \A i \in 1..Len(q) :
         i % 2 = 1 =>
           /\ q[i].ch = "L"
           /\ q[i + 1].ch = "R"
           /\ q[i].it = q[i + 1].it

\* The number two bytes at b[i], b[i + 1] stand for, read low byte first.
LeValue(b, i) == b[i] + 256 * b[i + 1]

\* The unsigned 16-bit word that stands for the i16 value v in two's
\* complement.
TwosComplement(v) == IF v >= 0 THEN v ELSE U16_MODULUS + v

\* The payload fields of a stream, in order.
IsPcm(t) == t.k = "pcm"
Payloads(st) == SelectSeq(st, IsPcm)

\* The sample s is in the batch of an in-loop flush that failed.
Discarded(s) ==
    \E c \in 1..Len(calls) :
        /\ calls[c].at = "loop"
        /\ ~calls[c].ok
        /\ \E k \in 1..Len(calls[c].batch) : calls[c].batch[k] = s
NotDiscarded(s) == ~Discarded(s)

\* The write of the sample s by some write_pcm_frame call was made and
\* succeeded.
ReachedStream(s) ==
    \E c \in 1..Len(calls) :
        \E k \in 1..Len(calls[c].batch) :
            calls[c].batch[k] = s /\ k <= calls[c].written - 3

\* The stream fields of a sequence of samples.
PcmOf(q) == [i \in 1..Len(q) |-> TokPcm(q[i])]

\* main() has returned.
MainEnded == pc \in {"done", "err_finalize", "err_wav_write"}

\* The loopback source failed in one of the ways of section 7 of the design:
\* endpoint or session not acquired, or an unsupported bit depth.
LoopbackSourceFailed ==
    lbPc = "exit_err" /\ lbErr \in {"endpoint", "session", "bit_depth"}

\* ------------------------------------------------------------------ claims

\* C1: the frames on the framed stream carry the sequence numbers 0, 1, 2, ...
\* in emission order: the first whole frame has number 0 and each later one
\* the number of the frame before it plus one (modulo 2^32).
C1_SequenceNumbersCountUp ==
    \A i \in FrameStarts :
        stream[i + 1].u = U32Of(Cardinality({k \in FrameStarts : k < i}))

\* C2: a sequence number written to the stream in a frame header is never
\* written again in a later frame header, whatever the outcome of each
\* write_pcm_frame call.
C2_SequenceNumberNeverReused ==
    \A i, j \in 1..Len(stream) :
        (i < j /\ stream[i].k = "seq" /\ stream[j].k = "seq")
            => stream[i].u # stream[j].u

\* C3 as stated: for every header on the stream, the declared length is twice
\* the number of samples of the batch and exactly that many payload bytes
\* follow before the next header or the end of the stream, also when a write
\* of the call failed partway.
C3_DeclaredLengthAlwaysMatches ==
    \A c \in HeaderCalls :
        /\ U32Value(stream[calls[c].pos + 2].u) = 2 * Len(calls[c].batch)
        /\ PcmRun(calls[c].pos + 3) * 2 = U32Value(stream[calls[c].pos + 2].u)

\* C3 as amended: for every header on the stream, the declared length is twice
\* the number of samples of the batch, and the payload that follows it is the
\* samples written before any failure, in order: all of the batch when every
\* sample write succeeded, fewer when one failed.
C3_DeclaredLengthMatchesWrittenBatch ==
    \A c \in HeaderCalls :
        LET call == calls[c]
            paid == call.written - 3
        IN  /\ HeaderAt(call.pos)
            /\ stream[call.pos + 1].u = call.seq
            /\ U32Value(stream[call.pos + 2].u) = 2 * Len(call.batch)
            /\ paid <= Len(call.batch)
            /\ PcmRun(call.pos + 3) = paid
            /\ \A k \in 1..paid :
                 stream[call.pos + 2 + k] = TokPcm(call.batch[k])
            /\ call.ok => paid = Len(call.batch)

\* A header reached the stream in a call whose sample writes all succeeded and
\* in a call that failed partway through its payload.
C3_Witness ==
    /\ \E c \in HeaderCalls : calls[c].ok
    /\ \E c \in HeaderCalls :
         /\ ~calls[c].ok
         /\ calls[c].written > 3
         /\ calls[c].written < Len(calls[c].batch) + 3

\* C4: in every iteration and for each channel, a sample returned by try_recv
\* is the value used and becomes the held value; when try_recv returns
\* nothing the value used is the sample most recently received from that
\* channel, or 0 if none ever was. The read is one step that is taken whether
\* or not the channel holds a sample.
C4_HoldLastValue ==
    [][ /\ (pc = "recv_mic" /\ pc' = "recv_loopback") =>
             /\ last_mic_sample' =
                    IF mic_ch # <<>> THEN Head(mic_ch) ELSE micDelivered
             /\ mic_ch # <<>> => mic_ch' = Tail(mic_ch)
        /\ (pc = "recv_loopback" /\ pc' = "emit") =>
             /\ last_loopback_sample' =
                    IF loopback_ch # <<>> THEN Head(loopback_ch)
                    ELSE loopbackDelivered
             /\ loopback_ch # <<>> => loopback_ch' = Tail(loopback_ch)
        /\ (pc = "emit" /\ pc' = "sleep_check") =>
             /\ wav'[Len(wav')  - 1].v = ToI16(last_mic_sample)
             /\ wav'[Len(wav')].v = ToI16(last_loopback_sample)
      ]_vars

\* Both reads of an iteration found their channel empty and the held values,
\* both non-zero, were used again.
C4_Witness ==
    /\ pc = "emit"
    /\ ~mic_got
    /\ ~loopback_got
    /\ last_mic_sample # 0
    /\ last_loopback_sample # 0

C6_FramesNeverSplit ==
    /\ WholePairs(wav)
    /\ WholePairs(frame_buffer)
    /\ \A i \in 1..Len(frame_buffer) :
         \E j \in 1..Len(wav) : wav[j] = frame_buffer[i]

\* C7: on shutdown there is at most one final flush, then the join, then the
\* finalization: the final flush is made before the join, the join returns
\* only when the loopback thread has returned, and once the finalization may
\* begin the mic stream is dropped, the loopback thread has returned, and no
\* step writes to the WAV sink, to the stream or to a channel.
C7_ShutdownOrder ==
    /\ [](Cardinality({c \in 1..Len(calls) : calls[c].at = "final"}) <= 1)
    /\ [](pc \in {"finalize", "done", "err_finalize"} =>
            /\ ~running
            /\ ~micAlive
            /\ LbExited
            /\ finalizeCalls <= 1)
    /\ [][ /\ pc \in {"drop_input", "join", "finalize", "done", "err_finalize"}
                => (wav' = wav /\ stream' = stream /\ calls' = calls)
           /\ pc \in {"finalize", "done", "err_finalize"}
                => (mic_ch' = mic_ch /\ loopback_ch' = loopback_ch)
           /\ finalizeCalls' # finalizeCalls => pc = "finalize"
         ]_vars

\* The session ended by the flag: a final flush was made, the loopback thread
\* had sent samples and stopped, and the WAV sink is finalized.
C7_Witness ==
    /\ pc = "done"
    /\ finalizeCalls = 1
    /\ lbPc = "exit_ok"
    /\ lbPackets >= 1
    /\ \E c \in 1..Len(calls) : calls[c].at = "final"

\* C8: on every path by which the session ends, the WAV sink is explicitly
\* finalized exactly once, after the last sample write.
C8_FinalizedOnEveryPath ==
    MainEnded => finalizeCalls = 1

\* C9: if the loopback source fails (endpoint or session not acquired, or an
\* unsupported bit depth), the mixing loop is left only when the running flag
\* is false, every right sample in the WAV sink, the staging buffer and the
\* stream is 0, and a session that ends by the flag has finalized the WAV
\* sink.
C9_LoopbackFailureLeavesSilence ==
    LoopbackSourceFailed =>
        /\ \A i \in 1..Len(wav) : wav[i].ch = "R" => wav[i].v = 0
        /\ \A i \in 1..Len(frame_buffer) :
             frame_buffer[i].ch = "R" => frame_buffer[i].v = 0
        /\ \A i \in 1..Len(stream) :
             (stream[i].k = "pcm" /\ stream[i].ch = "R") => stream[i].n = 0
        /\ last_loopback_sample = 0
        /\ pc \in {"final_flush", "drop_input", "join", "finalize", "done",
                   "err_finalize"} => ~running
        /\ pc \in {"done", "err_finalize"} => finalizeCalls = 1

\* The platform's format had an unsupported bit depth: the thread sent the
\* zeros of a silent buffer, failed on a buffer of data, and the session went
\* on to its end with frames in both sinks.
C9_Witness ==
    /\ lbPc = "exit_err"
    /\ lbErr = "bit_depth"
    /\ lbPackets = 2
    /\ pc = "done"
    /\ Len(wav) = 2 * MaxIter
    /\ \E i \in 1..Len(stream) : stream[i].k = "pcm" /\ stream[i].ch = "R"
    /\ \E i \in 1..Len(wav) : wav[i].ch = "L" /\ wav[i].v # 0

\* C10: when an in-loop flush fails, the staging buffer is emptied, the loop
\* goes on to the end of the iteration, the WAV sink is left as it is, with
\* every sample of the discarded batch in it; whatever flushes failed, the
\* WAV sink holds the frame of every iteration made; and no sample of a batch
\* handed to an in-loop flush is in the staging buffer again.
C10_FlushFailureDiscards ==
    /\ [][ (pc = "emit" /\ Len(calls') > Len(calls)
                /\ ~calls'[Len(calls')].ok) =>
             LET batch == calls'[Len(calls')].batch
             IN  /\ frame_buffer' = <<>>
                 /\ pc' = "sleep_check"
                 /\ Len(batch) = 2 * SAMPLES_PER_FRAME
                 /\ SubSeq(wav', Len(wav') - Len(batch) + 1, Len(wav'))
                        = batch
                 /\ samples_written' = samples_written + 2
         ]_vars
    /\ [](pc # "err_wav_write" =>
            Len(wav) = 2 * (IF pc \in {"recv_mic", "recv_loopback", "emit"}
                            THEN iter - 1 ELSE iter))
    /\ [](\A i \in 1..Len(frame_buffer) :
            \A c \in 1..Len(calls) :
              calls[c].at = "loop" =>
                \A k \in 1..Len(calls[c].batch) :
                   frame_buffer[i] # calls[c].batch[k])

\* An in-loop flush failed and the loop went on: a later iteration wrote its
\* frame to the WAV sink and to the empty staging buffer.
C10_Witness ==
    /\ \E c \in 1..Len(calls) : calls[c].at = "loop" /\ ~calls[c].ok
    /\ pc = "sleep_check"
    /\ iter = MaxIter
    /\ Len(wav) = 2 * MaxIter
    /\ Len(frame_buffer) = 2

\* C11 as stated: every sample of a silence-flagged buffer of N frames enters
\* the loopback channel, whatever the channel holds: each try_send of the
\* buffer appends one zero, so the samples taken by the channel are as many
\* as the sends made.
C11_SilenceFramesAllDelivered ==
    /\ [](lbSilent => lbEntered = lbFrames - Len(lbPending))
    /\ [][ (lbSilent /\ lbPending' # lbPending) =>
              loopback_ch' = Append(loopback_ch, 0)
         ]_vars

\* C11 as amended: for a silence-flagged buffer of N frames the thread makes
\* exactly N try_send calls of the value 0, one per frame; each one appends a
\* zero when the channel has room and is dropped, the channel left as it is,
\* when the channel is full; the buffer is done with the N-th call.
C11_SilenceFramesAllOffered ==
    /\ [](lbSilent =>
            /\ lbFrames >= 1
            /\ Len(lbPending) >= 1
            /\ Len(lbPending) <= lbFrames
            /\ lbPending = [i \in 1..Len(lbPending) |-> 0]
            /\ lbEntered <= lbFrames - Len(lbPending))
    /\ [][ /\ (~lbSilent /\ lbSilent') =>
                /\ lbPc = "drain"
                /\ Len(lbPending') = lbFrames'
                /\ lbEntered' = 0
           /\ (lbSilent /\ lbPending' # lbPending) =>
                /\ IF Len(loopback_ch) < ChannelCapacity
                   THEN loopback_ch' = Append(loopback_ch, 0)
                   ELSE loopback_ch' = loopback_ch
                /\ \/ /\ lbPending' = Tail(lbPending)
                      /\ lbSilent'
                      /\ lbFrames' = lbFrames
                      /\ lbEntered' = lbEntered +
                            (IF Len(loopback_ch) < ChannelCapacity
                             THEN 1 ELSE 0)
                   \/ /\ Len(lbPending) = 1
                      /\ lbPending' = <<>>
                      /\ ~lbSilent'
         ]_vars

\* The first zero of a silence-flagged buffer of two frames found the channel
\* full and was dropped; the second is still to be sent.
C11_Witness ==
    /\ lbPc = "sending"
    /\ lbSilent
    /\ lbFrames = 2
    /\ Len(lbPending) = 1
    /\ lbEntered = 0
    /\ Len(loopback_ch) = ChannelCapacity

\* The k-th sample of the mic sequence 0.5, -0.5, 0.5, -0.5 (half units).
C12_MicSequence(k) == IF k % 2 = 1 THEN 1 ELSE -1
\* The k-th left sample the scenario of the design gives.
C12_Left(k) == IF k % 2 = 1 THEN 16383 ELSE -16384

\* C12: with the mic channel delivering 0.5, -0.5, 0.5, -0.5 and the loopback
\* channel only zeros, the first 4 frames written have the left samples
\* 16383, -16384, 16383, -16384 and the right samples 0: in a session that
\* has followed the scenario so far, the frame of iteration k <= 4 is
\* (C12_Left(k), 0).
C12_FirstFourFrames ==
    [][ ( /\ pc = "emit"
          /\ pc' = "sleep_check"
          /\ iter <= 4
          /\ mic_got
          /\ last_mic_sample = C12_MicSequence(iter)
          /\ last_loopback_sample = 0
          /\ \A i \in 1..Len(wav) :
                wav[i].v = IF wav[i].ch = "L" THEN C12_Left(wav[i].it) ELSE 0
        ) =>
          /\ wav'[Len(wav) + 1].v = C12_Left(iter)
          /\ wav'[Len(wav) + 2].v = 0
      ]_vars

\* The batch of the scenario: (100, -100), (200, -200).
C13_Batch == PairSamples(<<100, -100>>, 1) \o PairSamples(<<200, -200>>, 2)
\* The payload the scenario states: 64 00 16 FF C8 00 38 FF.
C13_PayloadAsStated == <<100, 0, 22, 255, 200, 0, 56, 255>>
\* The payload with the bytes of -100 (0xFF9C): 64 00 9C FF C8 00 38 FF.
C13_Payload == <<100, 0, 156, 255, 200, 0, 56, 255>>

\* What a successful write_pcm_frame call put on the stream, in general: the
\* 4 bytes 'SELL', the sequence number and the length in bytes as 4
\* little-endian bytes each, then every sample as the 2 little-endian bytes
\* of its two's-complement word, in left, right, left, right order.
C13_FrameLayout ==
    (pc = "returned" /\ calls[1].ok) =>
        LET b == StreamBytes(stream)
            n == Len(frame_buffer)
        IN  /\ Len(b) = 12 + 2 * n
            /\ \A i \in 1..Len(b) : b[i] \in 0..255
            /\ SubSeq(b, 1, 4) = <<83, 69, 76, 76>>
            /\ LeValue(b, 5) = sequence_number.lo
            /\ LeValue(b, 7) = sequence_number.hi
            /\ LeValue(b, 9) = 2 * n
            /\ LeValue(b, 11) = 0
            /\ \A k \in 1..n :
                 /\ LeValue(b, 11 + 2 * k) = TwosComplement(frame_buffer[k].v)
                 /\ frame_buffer[k].ch = IF k % 2 = 1 THEN "L" ELSE "R"

\* C13 as stated: write_pcm_frame on the batch (100, -100), (200, -200)
\* writes 'SELL', the sequence number, the length 8 and the payload
\* 64 00 16 FF C8 00 38 FF; in general it writes the layout above.
C13_FrameBytesAsStated ==
    /\ C13_FrameLayout
    /\ (pc = "returned" /\ calls[1].ok /\ frame_buffer = C13_Batch) =>
          /\ SubSeq(StreamBytes(stream), 9, 12) = <<8, 0, 0, 0>>
          /\ SubSeq(StreamBytes(stream), 13, 20) = C13_PayloadAsStated

\* C13 as amended: write_pcm_frame on the batch (100, -100), (200, -200)
\* writes 'SELL', the sequence number, the length 8 and the payload
\* 64 00 9C FF C8 00 38 FF; in general it writes the layout above.
C13_FrameBytes ==
    /\ C13_FrameLayout
    /\ (pc = "returned" /\ calls[1].ok /\ frame_buffer = C13_Batch) =>
          /\ SubSeq(StreamBytes(stream), 9, 12) = <<8, 0, 0, 0>>
          /\ SubSeq(StreamBytes(stream), 13, 20) = C13_Payload

\* The batch of the scenario was written whole with the sequence number
\* 0x01020304.
C13_Witness ==
    /\ pc = "returned"
    /\ calls[1].ok
    /\ frame_buffer = C13_Batch
    /\ sequence_number = [hi |-> 258, lo |-> 772]
    /\ Len(StreamBytes(stream)) = 20

\* The value v is an i16.
C14_InI16(v) == v >= -I16_MAX - 1 /\ v <= I16_MAX
\* What the claim says of the sample v emitted for the amplitude a (half
\* units): full scale beyond 1.0 and -1.0, and never of the other sign.
C14_Clamped(a, v) ==
    /\ C14_InI16(v)
    /\ a > 2 => v = I16_MAX
    /\ a < -2 => v = -I16_MAX
    /\ a >= 0 => v >= 0
    /\ a <= 0 => v <= 0

\* C14: an amplitude above 1.0 is emitted as 32767 and one below -1.0 as
\* -32767; no amplitude gives a sample outside the i16 range or of the
\* other sign, in the WAV sink, in the staging buffer or on the stream.
C14_ClampedNeverWrapped ==
    /\ [](/\ \A i \in 1..Len(wav) : C14_InI16(wav[i].v)
          /\ \A i \in 1..Len(frame_buffer) : C14_InI16(frame_buffer[i].v)
          /\ \A i \in 1..Len(stream) :
               stream[i].k = "pcm" =>
                 /\ C14_InI16(stream[i].n)
                 /\ \E j \in 1..Len(wav) : TokPcm(wav[j]) = stream[i])
    /\ [][ (pc = "emit" /\ Len(wav') > Len(wav)) =>
              /\ C14_Clamped(last_mic_sample, wav'[Len(wav) + 1].v)
              /\ Len(wav') = Len(wav) + 2 =>
                    /\ C14_Clamped(last_loopback_sample, wav'[Len(wav) + 2].v)
                    /\ frame_buffer' # <<>> =>
                          SubSeq(frame_buffer', Len(frame_buffer') - 1,
                                 Len(frame_buffer'))
                            = SubSeq(wav', Len(wav) + 1, Len(wav) + 2)
         ]_vars

\* The mic amplitude 1.5 and the loopback amplitude -2.0 went through the
\* conversion into the WAV sink and onto the stream.
C14_Witness ==
    /\ last_mic_sample = 3
    /\ last_loopback_sample = -4
    /\ \E i \in 1..Len(wav) : wav[i].ch = "L" /\ wav[i].v = I16_MAX
    /\ \E i \in 1..Len(stream) :
         stream[i].k = "pcm" /\ stream[i].ch = "L" /\ stream[i].n = I16_MAX
    /\ \E i \in 1..Len(stream) :
         stream[i].k = "pcm" /\ stream[i].ch = "R" /\ stream[i].n = -I16_MAX

\* C15: no write_pcm_frame call is made on an empty batch and no size field
\* on the stream is 0; every in-loop flush carries exactly SAMPLES_PER_FRAME
\* pairs; the final flush carries at least 1 pair and fewer than
\* SAMPLES_PER_FRAME; with an empty staging buffer the final flush writes
\* nothing.
C15_NoEmptyFrame ==
    /\ [](\A c \in 1..Len(calls) :
            LET n == Len(calls[c].batch)
            IN  /\ n > 0
                /\ n % 2 = 0
                /\ calls[c].at = "loop" => n = 2 * SAMPLES_PER_FRAME
                /\ calls[c].at = "final" =>
                      (n >= 2 /\ n <= 2 * (SAMPLES_PER_FRAME - 1)))
    /\ [](\A i \in 1..Len(stream) :
            stream[i].k = "size" => U32Value(stream[i].u) > 0)
    /\ [][ /\ (pc = "final_flush" /\ frame_buffer = <<>>) =>
                (stream' = stream /\ calls' = calls)
           /\ (pc = "final_flush" /\ pc' = "drop_input"
                   /\ frame_buffer # <<>>) =>
                (Len(calls') = Len(calls) + 1
                   /\ calls'[Len(calls')].batch = frame_buffer)
         ]_vars

\* A full frame was flushed in the loop and the pair left over by the final
\* flush.
C15_Witness ==
    /\ pc = "drop_input"
    /\ Len(calls) = 2
    /\ calls[1].at = "loop"
    /\ calls[1].ok
    /\ Len(calls[1].batch) = 2 * SAMPLES_PER_FRAME
    /\ calls[2].at = "final"
    /\ calls[2].ok

\* C16: when the session has ended by the flag and the WAV sink is
\* finalized, the sink holds 2 samples per iteration of the mixing loop, the
\* left and the right sample of iteration k at the places 2k - 1 and 2k,
\* whatever the reads returned and whatever flushes failed; samples_written
\* is that count.
C16_WavSampleCount ==
    pc = "done" =>
        /\ Len(wav) = 2 * iter
        /\ samples_written = Len(wav)
        /\ \A k \in 1..iter :
             /\ wav[2 * k - 1].ch = "L"
             /\ wav[2 * k - 1].it = k
             /\ wav[2 * k].ch = "R"
             /\ wav[2 * k].it = k

\* A session of MaxIter iterations, one of them with a failed in-loop flush,
\* has been finalized.
C16_Witness ==
    /\ pc = "done"
    /\ finalizeCalls = 1
    /\ iter = MaxIter
    /\ samples_written = 2 * MaxIter
    /\ \E c \in 1..Len(calls) : calls[c].at = "loop" /\ ~calls[c].ok

\* The warnings that tell of a loopback thread that ended badly.
LoopbackWarnings == {LogPanicked}

\* C17: when main has returned, every error of the session has its line on
\* stderr: a failed in-loop flush, a failed final flush, an error returned by
\* main, and a loopback thread that returned an error.
C17_EveryErrorLogged ==
    MainEnded =>
        /\ (\E c \in 1..Len(calls) : calls[c].at = "loop" /\ ~calls[c].ok)
              => LogPcmFrame \in log
        /\ (\E c \in 1..Len(calls) : calls[c].at = "final" /\ ~calls[c].ok)
              => LogFinalFrame \in log
        /\ pc \in {"err_wav_write", "err_finalize"} => LogMainError \in log
        /\ lbPc = "exit_err" => log \cap LoopbackWarnings # {}

\* C18 as stated: the iteration just ended has slept only if neither of its
\* two reads returned a sample.
C18_SleepOnlyAfterEmptyReads ==
    slept => (~mic_got /\ ~loopback_got)

\* C18 as amended: the iteration sleeps exactly when both channels are empty
\* at its end, whatever its two reads returned.
C18_SleepWhenBothEmptyAtEnd ==
    /\ [](slept => pc = "loop")
    /\ [][ (pc = "sleep_check" /\ pc' = "loop") =>
              /\ slept' = (mic_ch = <<>> /\ loopback_ch = <<>>)
              /\ mic_got' = mic_got
              /\ loopback_got' = loopback_got
         ]_vars

\* An iteration whose two reads both returned a sample has slept: the reads
\* had emptied the channels.
C18_Witness ==
    /\ pc = "loop"
    /\ slept
    /\ mic_got
    /\ loopback_got

\* C19: the running flag, once false, stays false, and from then on the
\* session comes to the end of its shutdown: the loopback thread has
\* returned and the WAV sink is finalized.
C19_ShutdownCompletes ==
    /\ [][~running => ~running']_vars
    /\ (~running ~> (LbExited /\ finalizeCalls = 1))

\* C20 as stated: once the session has ended by the flag, the payloads on
\* the stream, in order, are the samples of the WAV sink with the batches of
\* the failed in-loop flushes removed (all of them when no flush failed).
C20_StreamIsWavLessDiscarded ==
    pc = "done" =>
        Payloads(stream) = PcmOf(SelectSeq(wav, NotDiscarded))

\* C20 as amended: once the session has ended by the flag, the payloads on
\* the stream, in order, are the samples of the WAV sink whose write to the
\* stream was made and succeeded: every batch of a successful call whole and
\* the written part of the batch of a failed call; when no call failed they
\* are all the samples of the WAV sink, in frames numbered 0, 1, 2, ...
C20_StreamIsWavAsWritten ==
    pc = "done" =>
        /\ Payloads(stream) = PcmOf(SelectSeq(wav, ReachedStream))
        /\ (\A c \in 1..Len(calls) : calls[c].ok) =>
              /\ Payloads(stream) = PcmOf(wav)
              /\ \A c \in 1..Len(calls) :
                   /\ HeaderAt(calls[c].pos)
                   /\ stream[calls[c].pos + 1].u = U32Of(c - 1)
                   /\ PcmRun(calls[c].pos + 3) = Len(calls[c].batch)

\* The session has ended by the flag after an in-loop flush that failed
\* partway through its payload and a final flush that succeeded.
C20_Witness ==
    /\ pc = "done"
    /\ \E c \in 1..Len(calls) :
         /\ calls[c].at = "loop"
         /\ ~calls[c].ok
         /\ calls[c].written > 3
    /\ \E c \in 1..Len(calls) : calls[c].at = "final" /\ calls[c].ok

====
